---- MODULE Spec2Model ----
(***************************************************************************)
(* State-machine model of the NRF operator charm (src/src/charm.py).       *)
(*                                                                         *)
(* The charm is a set of event handlers run to completion, one at a time,  *)
(* by the ops framework.  The state is what the handlers read and write:   *)
(* the relations, the workload container (reachability, files, Pebble      *)
(* plan and services), the payload published on the nrf relation, the      *)
(* unit status and the framework's store of deferred events.               *)
(***************************************************************************)
EXTENDS Naturals, Sequences, FiniteSets, TLC

VARIABLES
    appName,      \* self.model.app.name
    modelName,    \* self.model.name
    dbRelation,   \* whether self.model.get_relation("database") is set
    nrfRelation,  \* whether self.model.get_relation("nrf") is set
    canConnect,   \* self._container.can_connect()
    files,        \* files of the workload container: path -> content
    plan,         \* services of the container's Pebble plan: name -> service
    running,      \* names of the services Pebble reports as running
    relData,      \* payload published on the nrf relation: key -> value
    status,       \* self.unit.status
    deferred,     \* events deferred by their handler, oldest first
    hook,         \* the event of the dispatch in progress (NoHook when idle)
    idx,          \* position of the next deferred event to re-emit
    last          \* the most recent handler invocation

vars == <<appName, modelName, dbRelation, nrfRelation, canConnect, files, plan,
          running, relData, status, deferred, hook, idx, last>>

----------------------------------------------------------------------------
\* Bounds of the model.

\* Most URIs in the list a database-created event carries.
MaxUris == 2

\* Most events the framework holds deferred at once.
MaxDeferred == 1

\* The URIs a database offers, as character sequences.
Uris == {<<"a">>, <<"b", "c">>}

AppNames == {"nrf", "nrf-operator"}

ModelNames == {"core", "edge"}

\* The deployments: the names the platform gives the application and its
\* model; they never change, and a handler reads them only for the url.
Deployments ==
    {[app |-> "nrf", model |-> "core"], [app |-> "nrf-operator", model |-> "edge"]}

----------------------------------------------------------------------------
\* Constants of charm.py.

BASE_CONFIG_PATH == "/etc/nrf"

CONFIG_FILE_NAME == "nrfcfg.yaml"

DATABASE_NAME == "free5gc"

_container_name == "nrf"

_service_name == "nrf"

SbiPort == "29510"

ConfigPath == BASE_CONFIG_PATH \o "/" \o CONFIG_FILE_NAME

----------------------------------------------------------------------------
\* Unit statuses (ops.model).

ActiveStatus == [name |-> "active", message |-> ""]

BlockedStatus(message) == [name |-> "blocked", message |-> message]

WaitingStatus(message) == [name |-> "waiting", message |-> message]

\* The status of a unit no handler has set yet.
MaintenanceStatus == [name |-> "maintenance", message |-> ""]

----------------------------------------------------------------------------
\* Events.

NoUris == <<>>

PebbleReadyEvent == [name |-> "nrf_pebble_ready", uris |-> NoUris]

DatabaseRelationJoinedEvent == [name |-> "database_relation_joined", uris |-> NoUris]

NrfRelationJoinedEvent == [name |-> "nrf_relation_joined", uris |-> NoUris]

DatabaseCreatedEvent(uris) == [name |-> "database_created", uris |-> uris]

\* The database-relation-changed hook, on which DatabaseRequires emits
\* database_created with the uris it finds on the relation.
DatabaseRelationChangedEvent ==
    [name |-> "database_relation_changed", uris |-> NoUris]

\* A hook the charm observes no event of (update-status, config-changed, ...).
UpdateStatusEvent == [name |-> "update_status", uris |-> NoUris]

NoHook == [name |-> "none", uris |-> NoUris]

\* str.join: the parts of a sequence with sep between them.
RECURSIVE Join(_, _)
Join(parts, sep) ==
    IF Len(parts) = 0 THEN <<>>
    ELSE IF Len(parts) = 1 THEN parts[1]
    ELSE parts[1] \o <<sep>> \o Join(Tail(parts), sep)

\* The comma-separated lists of one to n URIs.
UriLists(n) == {Join(us, ",") : us \in UNION {[1..k -> Uris] : k \in 1..n}}

----------------------------------------------------------------------------
\* Pure helpers.

\* str.split(sep): the parts of s between the occurrences of sep.
RECURSIVE Split(_, _)
Split(s, sep) ==
    IF s = <<>> THEN << <<>> >>
    ELSE LET rest == Split(Tail(s), sep)
         IN  IF Head(s) = sep
             THEN << <<>> >> \o rest
             ELSE << <<Head(s)>> \o rest[1] >> \o Tail(rest)

\* src/templates/nrfcfg.yaml.j2 rendered: the text the unit test expects,
\* as the sequence of its constant pieces and substituted values.
RenderTemplate(database_name, database_url) ==
    << "configuration:\n  DefaultPlmnId:\n    mcc: \"208\"\n    mnc: \"93\"\n  MongoDBName: ",
       database_name,
       "\n  MongoDBUrl: ",
       database_url,
       "\n  mongoDBStreamEnable: true\n  mongodb:\n    name: ",
       database_name,
       "\n    url: ",
       database_url,
       "\n  nfKeepAliveTime: 60\n  nfProfileExpiryEnable: true\n  sbi:\n    bindingIPv4: 0.0.0.0\n    port: 29510\n    registerIPv4: nrf\n    scheme: http\n  serviceNameList:\n  - nnrf-nfm\n  - nnrf-disc\ninfo:\n  description: NRF initial local configuration\n  version: 1.0.0\nlogger:\n  AMF:\n    ReportCaller: false\n    debugLevel: info\n  AUSF:\n    ReportCaller: false\n    debugLevel: info\n  Aper:\n    ReportCaller: false\n    debugLevel: info\n  CommonConsumerTest:\n    ReportCaller: false\n    debugLevel: info\n  FSM:\n    ReportCaller: false\n    debugLevel: info\n  MongoDBLibrary:\n    ReportCaller: false\n    debugLevel: info\n  N3IWF:\n    ReportCaller: false\n    debugLevel: info\n  NAS:\n    ReportCaller: false\n    debugLevel: info\n  NGAP:\n    ReportCaller: false\n    debugLevel: info\n  NRF:\n    ReportCaller: false\n    debugLevel: info\n  NamfComm:\n    ReportCaller: false\n    debugLevel: info\n  NamfEventExposure:\n    ReportCaller: false\n    debugLevel: info\n  NsmfPDUSession:\n    ReportCaller: false\n    debugLevel: info\n  NudrDataRepository:\n    ReportCaller: false\n    debugLevel: info\n  OpenApi:\n    ReportCaller: false\n    debugLevel: info\n  PCF:\n    ReportCaller: false\n    debugLevel: info\n  PFCP:\n    ReportCaller: false\n    debugLevel: info\n  PathUtil:\n    ReportCaller: false\n    debugLevel: info\n  SMF:\n    ReportCaller: false\n    debugLevel: info\n  UDM:\n    ReportCaller: false\n    debugLevel: info\n  UDR:\n    ReportCaller: false\n    debugLevel: info\n  WEBUI:\n    ReportCaller: false\n    debugLevel: info" >>

_environment_variables ==
    [k \in {"GRPC_GO_LOG_VERBOSITY_LEVEL", "GRPC_GO_LOG_SEVERITY_LEVEL",
            "GRPC_TRACE", "GRPC_VERBOSITY", "MANAGED_BY_CONFIG_POD"} |->
        CASE k = "GRPC_GO_LOG_VERBOSITY_LEVEL" -> "99"
          [] k = "GRPC_GO_LOG_SEVERITY_LEVEL" -> "info"
          [] k = "GRPC_TRACE" -> "all"
          [] k = "GRPC_VERBOSITY" -> "debug"
          [] k = "MANAGED_BY_CONFIG_POD" -> "true"]

\* _pebble_layer with the service left for manual start.
_pebble_layer_startup_disabled ==
    [summary |-> "nrf layer",
     description |-> "pebble config layer for nrf",
     services |->
        [n \in {"nrf"} |->
            [override |-> "replace",
             startup |-> "disabled",
             command |-> "nrf --nrfcfg " \o BASE_CONFIG_PATH \o "/" \o CONFIG_FILE_NAME,
             environment |-> _environment_variables]]]

_pebble_layer ==
    [summary |-> "nrf layer",
     description |-> "pebble config layer for nrf",
     services |->
        [n \in {"nrf"} |->
            [override |-> "replace",
             startup |-> "enabled",
             command |-> "nrf --nrfcfg " \o BASE_CONFIG_PATH \o "/" \o CONFIG_FILE_NAME,
             environment |-> _environment_variables]]]

\* _nrf_url without the port.
_nrf_url_no_port(w) ==
    "http://" \o w.appName \o "." \o w.modelName \o ".svc.cluster.local"

_nrf_url(w) ==
    "http://" \o w.appName \o "." \o w.modelName \o ".svc.cluster.local:" \o SbiPort

----------------------------------------------------------------------------
\* The handlers, as functions of the world w they run in.  A world holds the
\* values of the variables the handlers read or write, and what the
\* invocation did: defers, the number of its event.defer() calls, publishes,
\* the number of its _update_nrf_relation calls, and raised, the exception
\* that ended it ("none" if it returned).  canConnect is what
\* can_connect() answers when it is asked; the handler is not atomic, and
\* goesAway says whether the container goes away while the handler waits
\* for a push, so that a later can_connect() answers False.

World ==
    [appName |-> appName, modelName |-> modelName, dbRelation |-> dbRelation,
     nrfRelation |-> nrfRelation, canConnect |-> canConnect,
     goesAway |-> FALSE, files |-> files, plan |-> plan,
     running |-> running, relData |-> relData, status |-> status, defers |-> 0,
     publishes |-> 0, raised |-> "none"]

\* The worlds an invocation can run in: the container stays as it is found,
\* or it goes away during the push.
Worlds == {[World EXCEPT !.goesAway = gone] : gone \in BOOLEAN}

\* Container.push(path, source): the file is created or overwritten; the
\* container may be gone by the time the call returns.
Push(w, path, source) ==
    [w EXCEPT !.files = [p \in DOMAIN w.files \cup {path} |->
                            IF p = path THEN source ELSE w.files[p]],
              !.canConnect = w.canConnect /\ ~w.goesAway]

\* Container.add_layer(label, layer, combine=True): the layer's services
\* replace the plan's services of the same name.
AddLayer(w, layer) ==
    [w EXCEPT !.plan = [n \in DOMAIN w.plan \cup DOMAIN layer.services |->
                           IF n \in DOMAIN layer.services
                           THEN layer.services[n] ELSE w.plan[n]]]

\* Container.replan(): the services with startup enabled are (re)started.
Replan(w) ==
    [w EXCEPT !.running = w.running \cup
                  {n \in DOMAIN w.plan : w.plan[n].startup = "enabled"}]

\* NRFProvides.set_info(url): the url is published on the nrf relation.
SetInfo(w, url) ==
    [w EXCEPT !.relData = [k \in DOMAIN w.relData \cup {"url"} |->
                              IF k = "url" THEN url ELSE w.relData[k]]]

_relation_created(w, relation_name) ==
    CASE relation_name = "database" -> w.dbRelation
      [] relation_name = "nrf" -> w.nrfRelation
      [] OTHER -> FALSE

_database_relation_is_created(w) == _relation_created(w, "database")

_config_file_is_written(w) == ConfigPath \in DOMAIN w.files

\* _write_config_file keeping a config file that is already there.
_write_config_file_once(w, database_url) ==
    IF ConfigPath \in DOMAIN w.files THEN w
    ELSE Push(w, ConfigPath, RenderTemplate(DATABASE_NAME, database_url))

_write_config_file(w, database_url) ==
    Push(w, ConfigPath, RenderTemplate(DATABASE_NAME, database_url))

_update_nrf_relation(w) ==
    SetInfo([w EXCEPT !.publishes = @ + 1], _nrf_url(w))

\* Container.get_service(name): the service and whether it runs; ModelError
\* is raised if the plan has no such service.
GetService(w, service_name) ==
    IF service_name \in DOMAIN w.plan
    THEN [raised |-> "none", is_running |-> service_name \in w.running]
    ELSE [raised |-> "ModelError", is_running |-> FALSE]

\* The value of a property, or the exception it raised.
Returns(value) == [raised |-> "none", value |-> value]

Raises(exception) == [raised |-> exception, value |-> FALSE]

\* _nrf_service_is_running without the try/except around get_service.
_nrf_service_is_running_uncaught(w) ==
    IF ~w.canConnect THEN Returns(FALSE)
    ELSE LET service == GetService(w, _service_name)
         IN  IF service.raised # "none" THEN Raises(service.raised)
             ELSE IF ~service.is_running THEN Returns(FALSE)
             ELSE Returns(TRUE)

\* _nrf_service_is_running without the service.is_running() check.
_nrf_service_is_running_if_declared(w) ==
    IF ~w.canConnect THEN Returns(FALSE)
    ELSE LET service == GetService(w, _service_name)
         IN  IF service.raised = "ModelError" THEN Returns(FALSE)
             ELSE Returns(TRUE)

_nrf_service_is_running(w) ==
    IF ~w.canConnect THEN Returns(FALSE)
    ELSE LET service == GetService(w, _service_name)
         IN  IF service.raised = "ModelError" THEN Returns(FALSE)
             ELSE IF ~service.is_running THEN Returns(FALSE)
             ELSE Returns(TRUE)

\* _on_nrf_pebble_ready checking the container before the relation.
_on_nrf_pebble_ready_container_first(w, event) ==
    IF ~w.canConnect
    THEN [w EXCEPT !.status = WaitingStatus("Waiting for container to be ready"),
                   !.defers = @ + 1]
    ELSE IF ~_database_relation_is_created(w)
    THEN [w EXCEPT !.status =
              BlockedStatus("Waiting for database relation to be created")]
    ELSE IF ~_config_file_is_written(w)
    THEN [w EXCEPT !.status = WaitingStatus("Waiting for config file to be written")]
    ELSE _update_nrf_relation(
             [Replan(AddLayer(w, _pebble_layer)) EXCEPT !.status = ActiveStatus])

\* _on_nrf_pebble_ready without the event.defer() call.
_on_nrf_pebble_ready_no_defer(w, event) ==
    IF ~_database_relation_is_created(w)
    THEN [w EXCEPT !.status =
              BlockedStatus("Waiting for database relation to be created")]
    ELSE IF ~w.canConnect
    THEN [w EXCEPT !.status = WaitingStatus("Waiting for container to be ready")]
    ELSE IF ~_config_file_is_written(w)
    THEN [w EXCEPT !.status = WaitingStatus("Waiting for config file to be written")]
    ELSE _update_nrf_relation(
             [Replan(AddLayer(w, _pebble_layer)) EXCEPT !.status = ActiveStatus])

\* _on_nrf_pebble_ready without the config file check.
_on_nrf_pebble_ready_no_config_check(w, event) ==
    IF ~_database_relation_is_created(w)
    THEN [w EXCEPT !.status =
              BlockedStatus("Waiting for database relation to be created")]
    ELSE IF ~w.canConnect
    THEN [w EXCEPT !.status = WaitingStatus("Waiting for container to be ready"),
                   !.defers = @ + 1]
    ELSE _update_nrf_relation(
             [Replan(AddLayer(w, _pebble_layer)) EXCEPT !.status = ActiveStatus])

\* _on_nrf_pebble_ready publishing only if the service ran before the replan.
_on_nrf_pebble_ready_publish_if_running(w, event) ==
    IF ~_database_relation_is_created(w)
    THEN [w EXCEPT !.status =
              BlockedStatus("Waiting for database relation to be created")]
    ELSE IF ~w.canConnect
    THEN [w EXCEPT !.status = WaitingStatus("Waiting for container to be ready"),
                   !.defers = @ + 1]
    ELSE IF ~_config_file_is_written(w)
    THEN [w EXCEPT !.status = WaitingStatus("Waiting for config file to be written")]
    ELSE LET active ==
                 [Replan(AddLayer(w, _pebble_layer)) EXCEPT !.status = ActiveStatus]
         IN  IF _nrf_service_is_running(w).value
             THEN _update_nrf_relation(active)
             ELSE active

\* _on_nrf_pebble_ready writing a default config file when it finds none.
_on_nrf_pebble_ready_writes_config(w, event) ==
    IF ~_database_relation_is_created(w)
    THEN [w EXCEPT !.status =
              BlockedStatus("Waiting for database relation to be created")]
    ELSE IF ~w.canConnect
    THEN [w EXCEPT !.status = WaitingStatus("Waiting for container to be ready"),
                   !.defers = @ + 1]
    ELSE LET written == IF _config_file_is_written(w) THEN w
                        ELSE _write_config_file(w, <<>>)
         IN  _update_nrf_relation(
                 [Replan(AddLayer(written, _pebble_layer))
                      EXCEPT !.status = ActiveStatus])

\* _on_nrf_pebble_ready deferring its event also while it waits for the
\* config file.
_on_nrf_pebble_ready_defers_for_config(w, event) ==
    IF ~_database_relation_is_created(w)
    THEN [w EXCEPT !.status =
              BlockedStatus("Waiting for database relation to be created")]
    ELSE IF ~w.canConnect
    THEN [w EXCEPT !.status = WaitingStatus("Waiting for container to be ready"),
                   !.defers = @ + 1]
    ELSE IF ~_config_file_is_written(w)
    THEN [w EXCEPT !.status = WaitingStatus("Waiting for config file to be written"),
                   !.defers = @ + 1]
    ELSE _update_nrf_relation(
             [Replan(AddLayer(w, _pebble_layer)) EXCEPT !.status = ActiveStatus])

\* _on_nrf_pebble_ready publishing the url before it looks for the config
\* file.
_on_nrf_pebble_ready_publishes_early(w, event) ==
    IF ~_database_relation_is_created(w)
    THEN [w EXCEPT !.status =
              BlockedStatus("Waiting for database relation to be created")]
    ELSE IF ~w.canConnect
    THEN [w EXCEPT !.status = WaitingStatus("Waiting for container to be ready"),
                   !.defers = @ + 1]
    ELSE LET published == _update_nrf_relation(w)
         IN  IF ~_config_file_is_written(w)
             THEN [published EXCEPT !.status =
                       WaitingStatus("Waiting for config file to be written")]
             ELSE [Replan(AddLayer(published, _pebble_layer))
                       EXCEPT !.status = ActiveStatus]

\* _on_nrf_pebble_ready without the add_layer call.
_on_nrf_pebble_ready_no_add_layer(w, event) ==
    IF ~_database_relation_is_created(w)
    THEN [w EXCEPT !.status =
              BlockedStatus("Waiting for database relation to be created")]
    ELSE IF ~w.canConnect
    THEN [w EXCEPT !.status = WaitingStatus("Waiting for container to be ready"),
                   !.defers = @ + 1]
    ELSE IF ~_config_file_is_written(w)
    THEN [w EXCEPT !.status = WaitingStatus("Waiting for config file to be written")]
    ELSE _update_nrf_relation([Replan(w) EXCEPT !.status = ActiveStatus])

_on_nrf_pebble_ready(w, event) ==
    IF ~_database_relation_is_created(w)
    THEN [w EXCEPT !.status =
              BlockedStatus("Waiting for database relation to be created")]
    ELSE IF ~w.canConnect
    THEN [w EXCEPT !.status = WaitingStatus("Waiting for container to be ready"),
                   !.defers = @ + 1]
    ELSE IF ~_config_file_is_written(w)
    THEN [w EXCEPT !.status = WaitingStatus("Waiting for config file to be written")]
    ELSE LET layered == AddLayer(w, _pebble_layer)
             replanned == Replan(layered)
             active == [replanned EXCEPT !.status = ActiveStatus]
         IN  _update_nrf_relation(active)

\* _on_database_created looking for the database relation before it asks
\* whether the container is reachable.
_on_database_created_relation_first(w, event) ==
    IF ~_database_relation_is_created(w)
    THEN [w EXCEPT !.status =
              BlockedStatus("Waiting for database relation to be created")]
    ELSE IF ~w.canConnect
    THEN [w EXCEPT !.status = WaitingStatus("Waiting for container to be ready"),
                   !.defers = @ + 1]
    ELSE _on_nrf_pebble_ready(
             _write_config_file(w, Split(event.uris, ",")[1]), event)

\* _on_database_created taking the last URI of the list.
_on_database_created_last_uri(w, event) ==
    IF ~w.canConnect
    THEN [w EXCEPT !.status = WaitingStatus("Waiting for container to be ready"),
                   !.defers = @ + 1]
    ELSE _on_nrf_pebble_ready(
             _write_config_file(
                 w, Split(event.uris, ",")[Len(Split(event.uris, ","))]),
             event)

\* _on_database_created without the return after event.defer().
_on_database_created_no_return(w, event) ==
    LET waiting ==
            IF ~w.canConnect
            THEN [w EXCEPT !.status =
                      WaitingStatus("Waiting for container to be ready"),
                           !.defers = @ + 1]
            ELSE w
    IN  _on_nrf_pebble_ready(
            _write_config_file(waiting, Split(event.uris, ",")[1]), event)

\* _on_database_created without the call of _on_nrf_pebble_ready.
_on_database_created_no_convergence(w, event) ==
    IF ~w.canConnect
    THEN [w EXCEPT !.status = WaitingStatus("Waiting for container to be ready"),
                   !.defers = @ + 1]
    ELSE _write_config_file(w, Split(event.uris, ",")[1])

_on_database_created(w, event) ==
    IF ~w.canConnect
    THEN [w EXCEPT !.status = WaitingStatus("Waiting for container to be ready"),
                   !.defers = @ + 1]
    ELSE _on_nrf_pebble_ready(
             _write_config_file(w, Split(event.uris, ",")[1]), event)

\* _on_nrf_relation_joined without the service check.
_on_nrf_relation_joined_unguarded(w, event) == _update_nrf_relation(w)

_on_nrf_relation_joined(w, event) ==
    LET is_running == _nrf_service_is_running(w)
    IN  IF is_running.raised # "none"
        THEN [w EXCEPT !.raised = is_running.raised]
        ELSE IF ~is_running.value THEN w
        ELSE _update_nrf_relation(w)

\* framework.observe: the handler registered for the event.
Observer(w, event) ==
    CASE event.name \in {"nrf_pebble_ready", "database_relation_joined"} ->
             _on_nrf_pebble_ready(w, event)
      [] event.name = "database_created" -> _on_database_created(w, event)
      [] event.name = "nrf_relation_joined" -> _on_nrf_relation_joined(w, event)
      [] OTHER -> w

HandlerOf(event) ==
    CASE event.name \in {"nrf_pebble_ready", "database_relation_joined"} ->
             "_on_nrf_pebble_ready"
      [] event.name = "database_created" -> "_on_database_created"
      [] event.name = "nrf_relation_joined" -> "_on_nrf_relation_joined"
      [] OTHER -> "none"

----------------------------------------------------------------------------
\* The state machine.

\* last records the handler of the most recent invocation, its event, what
\* the handler found when it started (the database relation, the container's
\* reachability, the config file), whether the container went away while it
\* ran, whether the event was a deferred one delivered again, how often the
\* handler called event.defer() and _update_nrf_relation, the exception that
\* ended it, and repeat: whether the invocation before it ran the same
\* handler and found the same.
NoInvocation ==
    [handler |-> "none", event |-> NoHook, redelivered |-> FALSE,
     defers |-> 0, publishes |-> 0, raised |-> "none",
     dbRelation |-> FALSE, canConnect |-> FALSE, wentAway |-> FALSE,
     written |-> FALSE, repeat |-> FALSE]

Init ==
    /\ \E d \in Deployments :
           /\ d.app \in AppNames /\ d.model \in ModelNames
           /\ appName = d.app
           /\ modelName = d.model
    /\ dbRelation = FALSE
    /\ nrfRelation = FALSE
    /\ canConnect = FALSE
    /\ files = <<>>
    /\ plan = <<>>
    /\ running = {}
    /\ relData = <<>>
    /\ status = MaintenanceStatus
    /\ deferred = <<>>
    /\ hook = NoHook
    /\ idx = 0
    /\ last = NoInvocation

\* The handler observing event has run to completion and left the world w.
Handled(event, redelivered, w) ==
    /\ canConnect' = w.canConnect
    /\ files' = w.files
    /\ plan' = w.plan
    /\ running' = w.running
    /\ relData' = w.relData
    /\ status' = w.status
    /\ last' = [handler |-> HandlerOf(event), event |-> event,
                redelivered |-> redelivered, defers |-> w.defers,
                publishes |-> w.publishes, raised |-> w.raised,
                dbRelation |-> dbRelation, canConnect |-> canConnect,
                wentAway |-> canConnect /\ ~w.canConnect,
                written |-> _config_file_is_written(World),
                repeat |-> /\ last.handler = HandlerOf(event)
                           /\ last.dbRelation = dbRelation
                           /\ last.canConnect = canConnect
                           /\ last.written = _config_file_is_written(World)]
    /\ UNCHANGED <<appName, modelName, dbRelation, nrfRelation>>

Remove(s, i) == SubSeq(s, 1, i - 1) \o SubSeq(s, i + 1, Len(s))

\* The environment.  The relations a hook sees are those of its context, so
\* they come and go between dispatches; the container comes and goes at any
\* time, also between two handlers of one dispatch.
DatabaseRelationCreated ==
    /\ hook = NoHook
    /\ ~dbRelation
    /\ dbRelation' = TRUE
    /\ UNCHANGED <<appName, modelName, nrfRelation, canConnect, files, plan,
                   running, relData, status, deferred, hook, idx, last>>

DatabaseRelationBroken ==
    /\ hook = NoHook
    /\ dbRelation
    /\ dbRelation' = FALSE
    /\ UNCHANGED <<appName, modelName, nrfRelation, canConnect, files, plan,
                   running, relData, status, deferred, hook, idx, last>>

NrfRelationCreated ==
    /\ hook = NoHook
    /\ ~nrfRelation
    /\ nrfRelation' = TRUE
    /\ UNCHANGED <<appName, modelName, dbRelation, canConnect, files, plan,
                   running, relData, status, deferred, hook, idx, last>>

NrfRelationBroken ==
    /\ hook = NoHook
    /\ nrfRelation
    /\ nrfRelation' = FALSE
    /\ UNCHANGED <<appName, modelName, dbRelation, canConnect, files, plan,
                   running, relData, status, deferred, hook, idx, last>>

ContainerUp ==
    /\ ~canConnect
    /\ canConnect' = TRUE
    /\ UNCHANGED <<appName, modelName, dbRelation, nrfRelation, files, plan,
                   running, relData, status, deferred, hook, idx, last>>

ContainerDown ==
    /\ canConnect
    /\ canConnect' = FALSE
    /\ UNCHANGED <<appName, modelName, dbRelation, nrfRelation, files, plan,
                   running, relData, status, deferred, hook, idx, last>>

ServiceStops ==
    /\ hook = NoHook
    /\ _service_name \in running
    /\ running' = running \ {_service_name}
    /\ UNCHANGED <<appName, modelName, dbRelation, nrfRelation, canConnect,
                   files, plan, relData, status, deferred, hook, idx, last>>

\* main(NRFOperatorCharm): a hook starts a dispatch; the framework first
\* re-emits the deferred events, then emits the hook's own event.
Dispatch(event) ==
    /\ hook = NoHook
    /\ Len(deferred) < MaxDeferred \/ event = UpdateStatusEvent
    /\ hook' = event
    /\ idx' = 1
    /\ UNCHANGED <<appName, modelName, dbRelation, nrfRelation, canConnect,
                   files, plan, running, relData, status, deferred, last>>

PebbleReady == Dispatch(PebbleReadyEvent)

DatabaseRelationJoined == dbRelation /\ Dispatch(DatabaseRelationJoinedEvent)

NrfRelationJoined == nrfRelation /\ Dispatch(NrfRelationJoinedEvent)

DatabaseRelationChanged == dbRelation /\ Dispatch(DatabaseRelationChangedEvent)

UpdateStatus == Dispatch(UpdateStatusEvent)

\* Framework.reemit: the next deferred event is handled again; it stays
\* stored if its handler defers it again.
Reemit ==
    /\ hook # NoHook
    /\ idx \in 1..Len(deferred)
    /\ \E v \in Worlds :
       \E w \in {Observer(v, deferred[idx])} :
           /\ Handled(deferred[idx], TRUE, w)
           /\ IF w.defers > 0
              THEN idx' = idx + 1 /\ deferred' = deferred
              ELSE idx' = idx /\ deferred' = Remove(deferred, idx)
    /\ hook' = hook

\* The events the framework emits for a hook.
Emitted(h) ==
    IF h = DatabaseRelationChangedEvent
    THEN {DatabaseCreatedEvent(uris) : uris \in UriLists(MaxUris)}
    ELSE IF h = UpdateStatusEvent THEN {}
    ELSE {h}

\* Framework._emit: the hook's own event is handled; it is stored if its
\* handler defers it.  The dispatch ends.
Emit ==
    /\ hook # NoHook
    /\ idx > Len(deferred)
    /\ IF Emitted(hook) = {}
       THEN UNCHANGED <<appName, modelName, dbRelation, nrfRelation,
                        canConnect, files, plan, running, relData, status,
                        last, deferred>>
       ELSE \E event \in Emitted(hook) :
            \E v \in Worlds :
            \E w \in {Observer(v, event)} :
                /\ Handled(event, FALSE, w)
                /\ deferred' = IF w.defers > 0 THEN Append(deferred, event)
                               ELSE deferred
    /\ hook' = NoHook
    /\ idx' = 0

Next ==
    \/ DatabaseRelationCreated
    \/ DatabaseRelationBroken
    \/ NrfRelationCreated
    \/ NrfRelationBroken
    \/ ContainerUp
    \/ ContainerDown
    \/ ServiceStops
    \/ PebbleReady
    \/ DatabaseRelationJoined
    \/ NrfRelationJoined
    \/ DatabaseRelationChanged
    \/ UpdateStatus
    \/ Reemit
    \/ Emit

Spec == Init /\ [][Next]_vars

\* Juju runs the update-status hook at intervals, and a dispatch runs to its
\* end: every deferred event is delivered again, then the hook's own event.
\* Advance is UpdateStatus \/ Reemit \/ Emit as seen on hook, idx and
\* deferred; the handlers are total, so it is enabled exactly when one of
\* the three is, and a step of Next is its step exactly when it is theirs.
Advance ==
    \/ /\ hook = NoHook
       /\ hook' = UpdateStatusEvent /\ idx' = 1 /\ deferred' = deferred
    \/ /\ hook # NoHook
       /\ idx \in 1..Len(deferred)
       /\ hook' = hook
       /\ \/ idx' = idx + 1 /\ deferred' = deferred
          \/ idx' = idx /\ deferred' = Remove(deferred, idx)
    \/ /\ hook # NoHook
       /\ idx > Len(deferred)
       /\ hook' = NoHook /\ idx' = 0
       /\ deferred' = deferred \/ Len(deferred') = Len(deferred) + 1

LiveSpec == Spec /\ WF_<<hook, idx, deferred>>(Advance)

----------------------------------------------------------------------------
\* Vocabulary of the properties.

\* Where the framework keeps the event of the next handler step if the
\* handler defers it.
Position == IF idx \in 1..Len(deferred) THEN idx ELSE Len(deferred) + 1

\* The step runs handler h, on the event last' records.
HandlerStep(h) ==
    /\ hook # NoHook
    /\ idx \in 1..Len(deferred) \/ Emitted(hook) # {}
    /\ <<hook, idx, deferred>>' # <<hook, idx, deferred>>
    /\ last'.handler = h

\* The step leaves its event in the framework's store, to be delivered again.
CurDeferred ==
    /\ Len(deferred') >= Position
    /\ deferred'[Position] = last'.event
    /\ last'.defers = 1

InQueue(event) == \E i \in DOMAIN deferred : deferred[i] = event

WaitingForContainer == WaitingStatus("Waiting for container to be ready")

WaitingForConfigFile == WaitingStatus("Waiting for config file to be written")

BlockedOnDatabase == BlockedStatus("Waiting for database relation to be created")

\* The plan the unit test expects (test_charm.py, expected_plan).
ExpectedService ==
    [override |-> "replace",
     command |-> "nrf --nrfcfg /etc/nrf/nrfcfg.yaml",
     startup |-> "enabled",
     environment |->
        ("GRPC_GO_LOG_VERBOSITY_LEVEL" :> "99") @@
        ("GRPC_GO_LOG_SEVERITY_LEVEL" :> "info") @@
        ("GRPC_TRACE" :> "all") @@
        ("GRPC_VERBOSITY" :> "debug") @@
        ("MANAGED_BY_CONFIG_POD" :> "true")]

\* The characters of s before its first comma.
RECURSIVE UpToComma(_)
UpToComma(s) ==
    IF s = <<>> \/ Head(s) = "," THEN <<>>
    ELSE <<Head(s)>> \o UpToComma(Tail(s))

----------------------------------------------------------------------------
\* C1 (as stated): after _on_nrf_pebble_ready or _on_database_created has
\* run with the database relation absent, the unit status is Blocked,
\* whatever the container's reachability and the config file's presence.
C1_BlockedWhateverElse ==
    (last.handler \in {"_on_nrf_pebble_ready", "_on_database_created"}
        /\ ~last.dbRelation)
    => status = BlockedOnDatabase

\* C1 (amended): after _on_nrf_pebble_ready has run with the database
\* relation absent, the unit status is Blocked, whatever the container's
\* reachability and the config file's presence; after _on_database_created
\* has run with the relation absent, the status is Blocked if the container
\* was reachable, with or without a config file, and Waiting, with the event
\* deferred, if it was not.
C1_BlockedWithoutRelation ==
    /\ (last.handler = "_on_nrf_pebble_ready" /\ ~last.dbRelation)
        => status = BlockedOnDatabase
    /\ (last.handler = "_on_database_created" /\ ~last.dbRelation
            /\ last.canConnect)
        => status = BlockedOnDatabase
    /\ (last.handler = "_on_database_created" /\ ~last.dbRelation
            /\ ~last.canConnect)
        => /\ status = WaitingForContainer
           /\ last.defers = 1
           /\ InQueue(last.event)

C1_Witness ==
    /\ last.handler = "_on_database_created"
    /\ last.redelivered
    /\ ~last.dbRelation
    /\ last.canConnect
    /\ last.defers = 0
    /\ ~InQueue(last.event)
    /\ ConfigPath \in DOMAIN files
    /\ status = BlockedOnDatabase

\* C2: when _on_nrf_pebble_ready runs with the database relation present and
\* the container unreachable, the status becomes Waiting, the event handled
\* is deferred, and the plan, the config file and the relation payload are
\* unchanged.  The same holds when _on_database_created calls it and the
\* container went away during the push: the config file is then as the
\* push left it.
C2_UnreachableWaitsAndDefers ==
    [][/\ (HandlerStep("_on_nrf_pebble_ready") /\ dbRelation /\ ~canConnect)
          => /\ status' = WaitingForContainer
             /\ CurDeferred
             /\ UNCHANGED <<plan, files, relData>>
       /\ (HandlerStep("_on_database_created") /\ dbRelation /\ canConnect
              /\ last'.wentAway)
          => /\ status' = WaitingForContainer
             /\ CurDeferred
             /\ UNCHANGED <<plan, relData>>
             /\ files' = (ConfigPath :>
                   RenderTemplate(DATABASE_NAME, UpToComma(last'.event.uris)))
       ]_vars

C2_Witness ==
    /\ last.handler = "_on_nrf_pebble_ready"
    /\ last.dbRelation
    /\ ~last.canConnect
    /\ last.defers = 1
    /\ InQueue(last.event)
    /\ status = WaitingForContainer

\* C3: after the convergence routine has run with the database relation
\* present, the container reachable and the config file present, the plan
\* has exactly the service nrf, as the unit test expects it, and the status
\* is Active.  Called by _on_database_created, the routine finds the file
\* just written, and the container reachable unless it went away during
\* the push.
C3_PlanAppliedAndActive ==
    (/\ last.handler \in {"_on_nrf_pebble_ready", "_on_database_created"}
     /\ last.dbRelation
     /\ last.canConnect
     /\ ~last.wentAway
     /\ last.written \/ last.handler = "_on_database_created")
    => /\ DOMAIN plan = {"nrf"}
       /\ plan["nrf"] = ExpectedService
       /\ DOMAIN plan["nrf"].environment =
              {"GRPC_GO_LOG_VERBOSITY_LEVEL", "GRPC_GO_LOG_SEVERITY_LEVEL",
               "GRPC_TRACE", "GRPC_VERBOSITY", "MANAGED_BY_CONFIG_POD"}
       /\ status = ActiveStatus

C3_Witness ==
    /\ last.handler = "_on_nrf_pebble_ready"
    /\ last.dbRelation
    /\ last.canConnect
    /\ last.written
    /\ DOMAIN plan = {"nrf"}
    /\ status = ActiveStatus

\* C4: after _on_database_created has run with the container reachable, the
\* file /etc/nrf/nrfcfg.yaml holds the template rendered with the database
\* name free5gc and the first URI of the event's list; any list with the
\* same first URI gives the same file.
C4_ConfigFromFirstUri ==
    (last.handler = "_on_database_created" /\ last.canConnect)
    => /\ "/etc/nrf/nrfcfg.yaml" \in DOMAIN files
       /\ files["/etc/nrf/nrfcfg.yaml"] =
              RenderTemplate("free5gc", UpToComma(last.event.uris))
       /\ \A other \in UriLists(MaxUris) :
              UpToComma(other) = UpToComma(last.event.uris)
              => _on_database_created(
                     [World EXCEPT !.canConnect = TRUE],
                     DatabaseCreatedEvent(other)).files = files

C4_Witness ==
    /\ last.handler = "_on_database_created"
    /\ last.canConnect
    /\ last.event.uris = <<"b", "c", ",", "a">>
    /\ files[ConfigPath] = RenderTemplate(DATABASE_NAME, <<"b", "c">>)

\* C5: when _on_nrf_relation_joined runs with the container unreachable,
\* nothing is published: the relation payload is as it was, empty if it
\* was empty.
C5_NothingPublishedWhenUnreachable ==
    [][(HandlerStep("_on_nrf_relation_joined") /\ ~canConnect)
        => relData' = relData]_vars

C5_Witness ==
    /\ last.handler = "_on_nrf_relation_joined"
    /\ ~last.canConnect
    /\ relData = <<>>

\* C6: the plan is never applied before the config file has been written:
\* whenever the plan has the service nrf, the file /etc/nrf/nrfcfg.yaml,
\* absent at first and written by the charm alone, exists.
C6_ConfigBeforePlan ==
    "nrf" \in DOMAIN plan => "/etc/nrf/nrfcfg.yaml" \in DOMAIN files

C6_Witness ==
    /\ "nrf" \in DOMAIN plan
    /\ "/etc/nrf/nrfcfg.yaml" \in DOMAIN files
    /\ last.handler = "_on_nrf_pebble_ready"

\* C7: convergence is idempotent: when _on_nrf_pebble_ready runs right after
\* a run of itself and finds the same database relation, reachability and
\* config file (the names never change), it leaves the plan, the relation
\* payload and the status as the first run left them.
C7_ConvergenceIdempotent ==
    [][(/\ HandlerStep("_on_nrf_pebble_ready")
        /\ last.handler = "_on_nrf_pebble_ready"
        /\ last.dbRelation = dbRelation
        /\ last.canConnect = canConnect
        /\ last.written = (ConfigPath \in DOMAIN files))
        => UNCHANGED <<plan, relData, status>>]_vars

C7_Witness ==
    /\ last.handler = "_on_nrf_pebble_ready"
    /\ last.repeat
    /\ last.dbRelation /\ last.canConnect /\ last.written
    /\ "nrf" \in DOMAIN plan
    /\ "url" \in DOMAIN relData
    /\ status = ActiveStatus

\* The step runs a handler that finds the database relation present, the
\* container reachable and no config file.
FindsNoConfigFile(h) ==
    /\ HandlerStep(h)
    /\ dbRelation
    /\ canConnect
    /\ ConfigPath \notin DOMAIN files

\* The step takes its event out of the framework's store or never puts it
\* there.
CurNotDeferred ==
    /\ last'.defers = 0
    /\ Len(deferred') = Len(deferred) - (IF idx \in 1..Len(deferred) THEN 1 ELSE 0)

\* The status is Active only with the config file written, and only
\* _on_database_created with the container reachable changes the file.
ActiveOnlyAfterDatabaseCreated ==
    /\ status' = ActiveStatus => ConfigPath \in DOMAIN files'
    /\ files' # files => HandlerStep("_on_database_created") /\ canConnect

\* C8 (as stated): with the config file absent, the database relation
\* present and the container reachable, every workload-ready and every
\* peer-relation-joined event leaves the status Waiting, applies no plan,
\* writes no config file and defers nothing; the status becomes Active only
\* after a database-created event was handled with the container reachable.
C8_AlwaysLeftWaiting ==
    [][/\ (FindsNoConfigFile("_on_nrf_pebble_ready")
              \/ FindsNoConfigFile("_on_nrf_relation_joined"))
          => /\ status'.name = "waiting"
             /\ UNCHANGED <<plan, files>>
             /\ CurNotDeferred
       /\ ActiveOnlyAfterDatabaseCreated]_vars

\* C8 (amended): with the config file absent, the database relation present
\* and the container reachable, every workload-ready event sets the status
\* to Waiting (for the config file) and every peer-relation-joined event
\* leaves the status as it was, so never Active; neither applies a plan,
\* writes the config file or defers its event; the status becomes Active
\* only after a database-created event was handled with the container
\* reachable.
C8_NeverActiveWithoutConfig ==
    [][/\ FindsNoConfigFile("_on_nrf_pebble_ready")
          => /\ status' = WaitingForConfigFile
             /\ UNCHANGED <<plan, files>>
             /\ CurNotDeferred
       /\ FindsNoConfigFile("_on_nrf_relation_joined")
          => /\ status' = status
             /\ status' # ActiveStatus
             /\ UNCHANGED <<plan, files>>
             /\ CurNotDeferred
       /\ ActiveOnlyAfterDatabaseCreated]_vars

C8_Witness ==
    /\ last.handler = "_on_nrf_pebble_ready"
    /\ last.dbRelation /\ last.canConnect /\ ~last.written
    /\ last.defers = 0
    /\ status = WaitingForConfigFile
    /\ plan = <<>>
    /\ files = <<>>
    /\ deferred = <<>>

\* A database-created event is waiting to be delivered again.
DatabaseCreatedDeferred ==
    \E i \in DOMAIN deferred : deferred[i].name = "database_created"

Recovered ==
    /\ ConfigPath \in DOMAIN files
    /\ "nrf" \in DOMAIN plan
    /\ status = ActiveStatus

\* C9: unreachability is recoverable through redelivery: once a deferred
\* database-created event is stored, if from then on the database relation
\* stays present and the container stays reachable, then eventually the
\* config file is written, the plan is applied and the status is Active.
C9_RedeliveryRecovers ==
    []((DatabaseCreatedDeferred /\ [](dbRelation /\ canConnect)) => <>Recovered)

C9_Witness ==
    /\ last.handler = "_on_database_created"
    /\ last.redelivered
    /\ last.dbRelation /\ last.canConnect
    /\ ~last.written
    /\ Recovered

\* C10: when _on_database_created runs with the container unreachable, it
\* sets the status Waiting, defers the event and does nothing else: the
\* config file, the plan, the services and the relation payload are as they
\* were and the convergence routine does not run, with or without the
\* database relation.
C10_UnreachableDatabaseCreated ==
    [][(HandlerStep("_on_database_created") /\ ~canConnect)
        => /\ status' = WaitingForContainer
           /\ CurDeferred
           /\ UNCHANGED <<files, plan, running, relData>>]_vars

C10_Witness ==
    /\ last.handler = "_on_database_created"
    /\ ~last.canConnect
    /\ ~last.dbRelation
    /\ last.defers = 1
    /\ InQueue(last.event)
    /\ status = WaitingForContainer

\* The handlers of the charm.
Handlers ==
    {"_on_nrf_pebble_ready", "_on_database_created", "_on_nrf_relation_joined"}

\* What the handler h of the step finds: the container unreachable, in
\* _on_database_created or past the relation guard of _on_nrf_pebble_ready,
\* be it called by _on_database_created after a push during which the
\* container went away.
FindsUnreachable(h) ==
    \/ h = "_on_database_created" /\ ~canConnect
    \/ h = "_on_database_created" /\ canConnect /\ dbRelation /\ last'.wentAway
    \/ h = "_on_nrf_pebble_ready" /\ dbRelation /\ ~canConnect

\* C11: a handler defers its event exactly when it finds the container
\* unreachable, in _on_database_created or in _on_nrf_pebble_ready past the
\* relation guard; the Blocked path, the path waiting for the config file,
\* the Active path and _on_nrf_relation_joined defer nothing, and no
\* invocation calls event.defer() more than once.
C11_DefersExactlyWhenUnreachable ==
    [][\A h \in Handlers :
          HandlerStep(h)
          => /\ IF FindsUnreachable(h) THEN CurDeferred ELSE CurNotDeferred
             /\ last'.defers <= 1]_vars

C11_Witness ==
    /\ last.handler = "_on_nrf_pebble_ready"
    /\ ~last.dbRelation
    /\ ~last.canConnect
    /\ last.defers = 0
    /\ deferred = <<>>
    /\ status = BlockedOnDatabase

\* The url the charm publishes, from the names of the application and model.
PublishedUrl ==
    "http://" \o appName \o "." \o modelName \o ".svc.cluster.local:29510"

\* Pebble is reachable and reports the service nrf as running.
ConfirmedRunning ==
    /\ canConnect
    /\ "nrf" \in DOMAIN plan
    /\ "nrf" \in running

\* C12: _on_nrf_relation_joined publishes the url exactly when the service
\* is confirmed running (container reachable and Pebble reporting nrf as
\* running); otherwise it does nothing; either way the status, the plan and
\* the config file are unchanged.
C12_PublishesExactlyWhenRunning ==
    [][HandlerStep("_on_nrf_relation_joined")
        => /\ IF ConfirmedRunning
              THEN /\ last'.publishes = 1
                   /\ "url" \in DOMAIN relData'
                   /\ relData'["url"] = PublishedUrl
              ELSE /\ last'.publishes = 0
                   /\ UNCHANGED <<relData, running>>
                   /\ CurNotDeferred
           /\ UNCHANGED <<status, plan, files>>]_vars

C12_Witness ==
    /\ last.handler = "_on_nrf_relation_joined"
    /\ last.canConnect
    /\ last.publishes = 1
    /\ "nrf" \in DOMAIN plan
    /\ "url" \in DOMAIN relData
    /\ relData["url"] = PublishedUrl

\* C13: asking whether the service runs never raises: with the container
\* unreachable, or with no service nrf in the plan, the answer is "not
\* running", and _on_nrf_relation_joined returns without publishing.
C13_QueryNeverRaises ==
    /\ [](/\ _nrf_service_is_running(World).raised = "none"
          /\ (~canConnect \/ "nrf" \notin DOMAIN plan)
             => ~_nrf_service_is_running(World).value)
    /\ [][(HandlerStep("_on_nrf_relation_joined")
              /\ (~canConnect \/ "nrf" \notin DOMAIN plan))
          => /\ last'.raised = "none"
             /\ last'.publishes = 0
             /\ relData' = relData]_vars

C13_Witness ==
    /\ last.handler = "_on_nrf_relation_joined"
    /\ last.canConnect
    /\ plan = <<>>
    /\ last.raised = "none"
    /\ last.publishes = 0
    /\ relData = <<>>

\* C14: the config file is overwritten, not merged: every run of
\* _on_database_created with the container reachable leaves the file
\* holding the template rendered with the first URI of its event, whatever
\* the file held; a run with the container unreachable, and every other
\* step, leaves the file as it was.  So the file always holds what the most
\* recent such run wrote.
C14_ConfigOverwritten ==
    [][IF HandlerStep("_on_database_created") /\ canConnect
       THEN /\ DOMAIN files' = {"/etc/nrf/nrfcfg.yaml"}
            /\ files'["/etc/nrf/nrfcfg.yaml"] =
                   RenderTemplate("free5gc", UpToComma(last'.event.uris))
       ELSE files' = files]_vars

C14_Witness ==
    /\ last.handler = "_on_database_created"
    /\ last.canConnect
    /\ last.written
    /\ last.event.uris = <<"a", ",", "b", "c">>
    /\ files[ConfigPath] = RenderTemplate(DATABASE_NAME, <<"a">>)

\* C15: when _on_nrf_pebble_ready runs with the database relation present,
\* the container reachable and the config file absent, the status becomes
\* Waiting (for the config file), and the routine writes no config file,
\* applies no plan and publishes nothing.
C15_WaitsForConfigFile ==
    [][FindsNoConfigFile("_on_nrf_pebble_ready")
        => /\ status' = WaitingForConfigFile
           /\ last'.publishes = 0
           /\ UNCHANGED <<files, plan, running, relData>>]_vars

C15_Witness ==
    /\ last.handler = "_on_nrf_pebble_ready"
    /\ last.event = DatabaseRelationJoinedEvent
    /\ last.dbRelation /\ last.canConnect /\ ~last.written
    /\ last.publishes = 0
    /\ status = WaitingForConfigFile
    /\ ConfigPath \notin DOMAIN files
    /\ "nrf" \notin DOMAIN plan
    /\ relData = <<>>

\* C16: the relation payload is empty or exactly the key url with the value
\* http://<app-name>.<model-name>.svc.cluster.local:29510; every publication
\* writes that value, so the payload, once published, never changes.
C16_PayloadIsTheUrl ==
    /\ [](\/ relData = <<>>
          \/ /\ DOMAIN relData = {"url"}
             /\ relData["url"] = PublishedUrl)
    /\ [][/\ relData # <<>> => relData' = relData
          /\ \A h \in Handlers :
                (HandlerStep(h) /\ last'.publishes > 0)
                => relData' = [k \in {"url"} |-> PublishedUrl]]_vars

C16_Witness ==
    /\ appName = "nrf-operator"
    /\ modelName = "edge"
    /\ DOMAIN relData = {"url"}
    /\ relData["url"] = "http://nrf-operator.edge.svc.cluster.local:29510"

\* C17: whenever the status is Active, the plan has the service nrf.
C17_ActiveImpliesPlan ==
    status = ActiveStatus => "nrf" \in DOMAIN plan

C17_Witness ==
    /\ status = ActiveStatus
    /\ DOMAIN plan = {"nrf"}
    /\ last.handler = "_on_database_created"
    /\ last.publishes = 1

\* C18: the url is never published before the plan is applied: whenever the
\* relation payload is not empty, the plan has the service nrf.
C18_PublishedImpliesPlan ==
    relData # <<>> => "nrf" \in DOMAIN plan

C18_Witness ==
    /\ relData # <<>>
    /\ "nrf" \in DOMAIN plan
    /\ "nrf" \in running
    /\ last.handler = "_on_nrf_relation_joined"
    /\ last.publishes = 1

====
